---- MODULE Spec2Model ----
(***************************************************************************)
(* Model of EmbeddingService (python-services/services/embedding_service.py) *)
(* the Redis-backed embedding cache and the single / batch encode calls.   *)
(*                                                                         *)
(* Texts are numbered 0..NumTexts-1.  The MD5 digest of a text is modelled *)
(* as a hash into a digest space that is smaller than the text space, so   *)
(* two distinct texts can share a cache key, as they can for MD5 (e.g. the *)
(* two ASCII strings "TEXTCOLLBYfGiJUETHQ4hAcKSMd5zYpgqf1YRDhkmxHkhPWptr-   *)
(* koyz28wnI9V0aHeAuaKnak" and the same with "hEcK" for "hAcK" both hash to *)
(* faad49866e9498fc1719f5289e7a0269).                                      *)
(*                                                                         *)
(* Each caller runs one call at a time; the steps of the callers (cache    *)
(* reads, the model inference, cache writes) interleave freely, as they do *)
(* for service processes sharing one Redis.  Time advances by Tick.        *)
(*                                                                         *)
(* The vector operations (similarity, top-k, clustering, reduction,        *)
(* statistics) are pure functions of their arguments; op holds one such    *)
(* call: its arguments and, once it has run, its result.  semantic_search  *)
(* is held in op as well; it obtains the query vector through the cache.   *)
(***************************************************************************)
EXTENDS Integers, Sequences, FiniteSets, TLC

VARIABLES cache, now, call, submitted, op

vars == <<cache, now, call, submitted, op>>

\* ---------------------------------------------------------------- bounds
MaxLen == 2
MaxTicks == 2
MaxCalls == 2

\* ------------------------------------------------------ program constants
cache_ttl == 86400

Callers == {"c1", "c2"}

\* Time advances in steps of half the cache lifetime.
TickSeconds == cache_ttl \div 2
\* The input alphabet: three texts, of which 0 and 2 have the same MD5 digest.
Texts == {0, 1, 2}
None == <<>>

\* Every input list of at most n texts (the empty list included).
TextLists(n) == UNION {[1 .. m -> Texts] : m \in 0 .. n}

\* The lists a caller submits: caller c1 up to MaxLen texts, caller c2 one less.
InputsOf(c) == IF c = "c1" THEN TextLists(MaxLen) ELSE TextLists(MaxLen - 1)

\* ------------------------------------------------------------ pure helpers
\* hashlib.md5(text.encode()).hexdigest(): a hash into a bounded digest space.
Md5(text) == text % 2

\* _get_cache_key: f"embedding:{text_hash}"
CacheKey(text) == <<"embedding", Md5(text)>>

\* The sentence-transformer model: a deterministic vector per text.
Embed(text) == <<text + 1, 3 - text>>

\* self.model.encode(text): one vector.
ModelEncodeOne(text) == Embed(text)

\* self.model.encode(list): one vector per text, in order.
ModelEncode(ts) == [k \in 1 .. Len(ts) |-> Embed(ts[k])]

\* json.dumps(embedding_list): the JSON text of a vector (a wrapper that is
\* never the empty string); json.loads is its inverse.
Dumps(vec) == <<vec>>
Loads(s) == s[1]

\* Python truthiness of the value redis get returned (None or a string).
TruthyNever(s) == FALSE
Truthy(s) == s # None

\* redis GET: the stored string, or None when the key is absent or its
\* expiry time has passed (lazy expiry).
RedisGetNoExpiry(store, key, t) ==
    IF key \in DOMAIN store THEN store[key].val ELSE None
RedisGet(store, key, t) ==
    IF key \in DOMAIN store /\ t < store[key].expiry
    THEN store[key].val
    ELSE None

\* redis SETEX key ttl value: (over)writes the key, expiry restarts at t + ttl.
RedisSetex(store, key, ttl, val, t) ==
    [k \in (DOMAIN store) \cup {key} |->
        IF k = key THEN [val |-> val, expiry |-> t + ttl] ELSE store[k]]

\* The store after a cache hit: a read writes nothing and does not extend the
\* entry's expiry (the code calls get only; no expire / getex / setex on a hit).
StoreAfterHitSliding(store, key, t) ==
    [store EXCEPT ![key].expiry = t + cache_ttl]
StoreAfterHit(store, key, t) == store

\* The store after self.model.encode raised: the except branch logs and
\* re-raises; no entry is written, deleted or flushed.
StoreAfterModelErrorFlushed(store) == <<>>
StoreAfterModelError(store) == store

\* What a cache read at time t observes of the raw store (bookkeeping for the
\* properties; not program state).
Observe(store, key, t) ==
    IF key \notin DOMAIN store THEN [st |-> "absent", vec |-> None]
    ELSE IF t < store[key].expiry
         THEN [st |-> "live", vec |-> Loads(store[key].val)]
         ELSE [st |-> "expired", vec |-> None]

IdleCall ==
    [pc |-> "idle", kind |-> "single", texts |-> <<>>, i |-> 0,
     embeddings |-> <<>>, uncached_texts |-> <<>>, uncached_indices |-> <<>>,
     new_embeddings |-> <<>>, embedding |-> None, j |-> 0, result |-> None,
     modelCalls |-> <<>>, obs |-> <<>>, wrote |-> {},
     cacheErr |-> FALSE, modelErr |-> FALSE, prior |-> <<>>]

Finished(r) == r.pc \in {"idle", "returned", "raised", "cancelled"}

\* except Exception as e: logger.error(...); raise.  The frame's locals are
\* gone once the exception leaves the call (obs, wrote, prior and the error
\* flags are bookkeeping for the properties and are kept).
OnExceptionReturnPartial(r) ==
    [r EXCEPT !.pc = "returned", !.result = r.embeddings]
OnExceptionReturnHits(r) ==
    [r EXCEPT !.pc = "returned",
              !.result = SelectSeq(r.embeddings, LAMBDA e : e # None)]
OnException(r) ==
    [IdleCall EXCEPT !.pc = "raised", !.kind = r.kind, !.texts = r.texts,
                     !.obs = r.obs, !.wrote = r.wrote, !.cacheErr = r.cacheErr,
                     !.modelErr = r.modelErr, !.prior = r.prior]

\* The argument of the one batch inference: uncached_texts.
EncodeArgsAll(r) == r.texts
EncodeArgs(r) == r.uncached_texts

\* A coroutine without an await in its body can only be cancelled before its
\* first step runs.
CancellableInWrite(r) == r.pc \in {"pending", "setex"}
Cancellable(r) == r.pc = "pending"

\* No vector operation (similarity, clustering, reduction) is in progress.
NoOp == [fn |-> "none", done |-> TRUE]

\* ----------------------------------------------------------------- state
InitFor(cs) ==
    /\ cache = <<>>
    /\ now = 0
    /\ call = [c \in cs |-> IdleCall]
    /\ submitted = 0
    /\ op = NoOp

\* One caller issuing calls one after another.
Init == InitFor({"c1"})

\* Two callers whose calls interleave on the shared cache.
InitConc == InitFor(Callers)

\* The vector a returned call holds for position k of its input.
Slot(r, k) == IF r.kind = "single" THEN r.result ELSE r.result[k]

\* The vectors that calls which have already returned hold for a text
\* (bookkeeping for the properties; not program state).
ReturnedFor(text) ==
    {Slot(call[a], k) : <<a, k>> \in
        {p \in (DOMAIN call) \X (1 .. MaxLen) :
            /\ call[p[1]].pc = "returned"
            /\ p[2] <= Len(call[p[1]].texts)
            /\ call[p[1]].texts[p[2]] = text}}

PriorOf(ts) ==
    [k \in 1 .. Len(ts) |->
        IF ReturnedFor(ts[k]) = {} THEN None
        ELSE CHOOSE v \in ReturnedFor(ts[k]) : TRUE]

\* A caller creates a task for generate_embedding(text) or
\* generate_embeddings_batch(texts).
Submit(c) ==
    /\ Finished(call[c])
    /\ submitted < MaxCalls
    /\ submitted' = submitted + 1
    /\ \E kind \in {"single", "batch"} :
       \E ts \in InputsOf(c) :
          /\ kind = "single" => Len(ts) = 1
          /\ call' = [call EXCEPT ![c] =
                [IdleCall EXCEPT !.pc = "pending", !.kind = kind, !.texts = ts,
                                 !.prior = PriorOf(ts)]]
    /\ UNCHANGED <<cache, now, op>>

\* The task is cancelled (caller timeout or explicit cancel).
Cancel(c) ==
    /\ Cancellable(call[c])
    /\ call' = [call EXCEPT ![c].pc = "cancelled"]
    /\ UNCHANGED <<cache, now, submitted, op>>

\* The coroutine starts running: embeddings = [], uncached_* = [].
Begin(c) ==
    /\ call[c].pc = "pending"
    /\ call' = [call EXCEPT ![c].pc = "get"]
    /\ UNCHANGED <<cache, now, submitted, op>>

\* generate_embedding: cache lookup, return on a hit.
SingleGet(c) ==
    LET r == call[c]
        text == r.texts[1]
        key == CacheKey(text)
    IN
    /\ r.pc = "get" /\ r.kind = "single"
    /\ \E ok \in BOOLEAN :
         IF ~ok
         THEN /\ call' = [call EXCEPT ![c] = OnException([r EXCEPT !.cacheErr = TRUE])]
              /\ cache' = cache
         ELSE LET cached == RedisGet(cache, key, now)
                  seen == [r EXCEPT !.i = 1, !.obs = <<Observe(cache, key, now)>>]
              IN IF Truthy(cached)
                 THEN /\ call' = [call EXCEPT ![c] =
                            [seen EXCEPT !.pc = "returned", !.result = Loads(cached)]]
                      /\ cache' = StoreAfterHit(cache, key, now)
                 ELSE /\ call' = [call EXCEPT ![c] = [seen EXCEPT !.pc = "encode"]]
                      /\ cache' = cache
    /\ UNCHANGED <<now, submitted, op>>

\* generate_embedding: embedding = self.model.encode(text).tolist()
SingleEncode(c) ==
    LET r == call[c] IN
    /\ r.pc = "encode" /\ r.kind = "single"
    /\ \E ok \in BOOLEAN :
         IF ~ok
         THEN /\ call' = [call EXCEPT ![c] = OnException([r EXCEPT !.modelErr = TRUE])]
              /\ cache' = StoreAfterModelError(cache)
         ELSE /\ call' = [call EXCEPT ![c] =
                    [r EXCEPT !.pc = "setex",
                              !.embedding = ModelEncodeOne(r.texts[1]),
                              !.modelCalls = Append(r.modelCalls, <<r.texts[1]>>)]]
              /\ cache' = cache
    /\ UNCHANGED <<now, submitted, op>>

\* generate_embedding: setex(cache_key, cache_ttl, dumps(embedding)); return.
SingleSetex(c) ==
    LET r == call[c]
        key == CacheKey(r.texts[1])
    IN
    /\ r.pc = "setex" /\ r.kind = "single"
    /\ \E ok \in BOOLEAN :
         IF ~ok
         THEN /\ call' = [call EXCEPT ![c] = OnException([r EXCEPT !.cacheErr = TRUE])]
              /\ cache' = cache
         ELSE /\ cache' = RedisSetex(cache, key, cache_ttl, Dumps(r.embedding), now)
              /\ call' = [call EXCEPT ![c] =
                    [r EXCEPT !.pc = "returned", !.result = r.embedding,
                              !.j = 1, !.wrote = {1}]]
    /\ UNCHANGED <<now, submitted, op>>

\* generate_embeddings_batch: one iteration of the cache-check loop.
BatchGet(c) ==
    LET r == call[c]
        idx == r.i + 1
        text == r.texts[idx]
        key == CacheKey(text)
    IN
    /\ r.pc = "get" /\ r.kind = "batch" /\ r.i < Len(r.texts)
    /\ \E ok \in BOOLEAN :
         IF ~ok
         THEN /\ call' = [call EXCEPT ![c] = OnException([r EXCEPT !.cacheErr = TRUE])]
              /\ cache' = cache
         ELSE LET cached == RedisGet(cache, key, now)
                  seen == [r EXCEPT !.i = idx,
                                    !.obs = Append(r.obs, Observe(cache, key, now))]
              IN IF Truthy(cached)
                 THEN /\ call' = [call EXCEPT ![c] =
                            [seen EXCEPT !.embeddings = Append(r.embeddings, Loads(cached))]]
                      /\ cache' = StoreAfterHit(cache, key, now)
                 ELSE /\ call' = [call EXCEPT ![c] =
                            [seen EXCEPT !.embeddings = Append(r.embeddings, None),
                                         !.uncached_texts = Append(r.uncached_texts, text),
                                         !.uncached_indices = Append(r.uncached_indices, idx)]]
                      /\ cache' = cache
    /\ UNCHANGED <<now, submitted, op>>

\* generate_embeddings_batch: if uncached_texts: new_embeddings = model.encode(...)
BatchEncode(c) ==
    LET r == call[c] IN
    /\ r.pc = "get" /\ r.kind = "batch" /\ r.i = Len(r.texts)
    /\ r.uncached_texts # <<>>
    /\ \E ok \in BOOLEAN :
         IF ~ok
         THEN /\ call' = [call EXCEPT ![c] = OnException([r EXCEPT !.modelErr = TRUE])]
              /\ cache' = StoreAfterModelError(cache)
         ELSE /\ call' = [call EXCEPT ![c] =
                    [r EXCEPT !.pc = "setex",
                              !.new_embeddings = ModelEncode(EncodeArgs(r)),
                              !.modelCalls = Append(r.modelCalls, EncodeArgs(r))]]
              /\ cache' = cache
    /\ UNCHANGED <<now, submitted, op>>

\* generate_embeddings_batch: one iteration of the zip(uncached_indices,
\* new_embeddings) loop: fill the slot, then write the cache entry.
BatchSetex(c) ==
    LET r == call[c]
        n == r.j + 1
        idx == r.uncached_indices[n]
        embedding_list == r.new_embeddings[n]
        key == CacheKey(r.texts[idx])
        filled == [r EXCEPT !.embeddings[idx] = embedding_list]
    IN
    /\ r.pc = "setex" /\ r.kind = "batch"
    /\ r.j < Len(r.uncached_indices) /\ r.j < Len(r.new_embeddings)
    /\ \E ok \in BOOLEAN :
         IF ~ok
         THEN /\ call' = [call EXCEPT ![c] =
                    OnException([filled EXCEPT !.cacheErr = TRUE])]
              /\ cache' = cache
         ELSE /\ cache' = RedisSetex(cache, key, cache_ttl, Dumps(embedding_list), now)
              /\ call' = [call EXCEPT ![c] =
                    [filled EXCEPT !.j = n, !.wrote = r.wrote \cup {idx}]]
    /\ UNCHANGED <<now, submitted, op>>

\* generate_embeddings_batch: return embeddings.
BatchReturn(c) ==
    LET r == call[c] IN
    /\ r.kind = "batch"
    /\ \/ r.pc = "get" /\ r.i = Len(r.texts) /\ r.uncached_texts = <<>>
       \/ r.pc = "setex" /\ (r.j = Len(r.uncached_indices) \/ r.j = Len(r.new_embeddings))
    /\ call' = [call EXCEPT ![c] = [r EXCEPT !.pc = "returned", !.result = r.embeddings]]
    /\ UNCHANGED <<cache, now, submitted, op>>

\* Time passes.
Tick ==
    /\ now + TickSeconds <= MaxTicks * TickSeconds
    /\ now' = now + TickSeconds
    /\ UNCHANGED <<cache, call, submitted, op>>

Next ==
    \/ \E c \in DOMAIN call : Submit(c)
    \/ \E c \in DOMAIN call : Cancel(c)
    \/ \E c \in DOMAIN call : Begin(c)
    \/ \E c \in DOMAIN call : SingleGet(c)
    \/ \E c \in DOMAIN call : SingleEncode(c)
    \/ \E c \in DOMAIN call : SingleSetex(c)
    \/ \E c \in DOMAIN call : BatchGet(c)
    \/ \E c \in DOMAIN call : BatchEncode(c)
    \/ \E c \in DOMAIN call : BatchSetex(c)
    \/ \E c \in DOMAIN call : BatchReturn(c)
    \/ Tick

Spec == Init /\ [][Next]_vars

SpecConc == InitConc /\ [][Next]_vars

\* ------------------------------------------------------------ properties
Range(s) == {s[k] : k \in 1 .. Len(s)}

Returned(r) == r.pc = "returned"

\* Position k of the call's input was not sent to the model.
NoInferenceFor(r, k) ==
    IF r.kind = "single" THEN r.modelCalls = <<>>
    ELSE k \notin Range(r.uncached_indices)

\* Position k of the call's input was taken from the cache.
ServedFromCache(r, k) ==
    IF r.kind = "single" THEN r.pc = "returned" /\ r.modelCalls = <<>>
    ELSE k \notin Range(r.uncached_indices)

\* The input texts whose cache read did not hit, in input order.
MissedTexts(r) ==
    LET idxs == SelectSeq([k \in 1 .. Len(r.obs) |-> k],
                          LAMBDA k : r.obs[k].st # "live")
    IN [n \in 1 .. Len(idxs) |-> r.texts[idxs[n]]]

\* C1 (as claimed): a returned batch has the length of its input and position
\* k holds the embedding of texts[k], whatever the cache held.
C1_BatchHoldsEmbeddingOfEachText ==
    \A c \in DOMAIN call :
        (call[c].kind = "batch" /\ Returned(call[c])) =>
            /\ Len(call[c].result) = Len(call[c].texts)
            /\ \A k \in 1 .. Len(call[c].texts) :
                  call[c].result[k] = Embed(call[c].texts[k])

\* C2 (as claimed): once some call has returned a vector for text t, every
\* later call containing t sends no occurrence of t to the model and returns
\* that same vector.
C2_LaterCallsAlwaysServedFromCache ==
    \A c \in DOMAIN call :
        \A k \in 1 .. Len(call[c].obs) :
            call[c].prior[k] # None =>
                /\ call[c].pc # "raised" => NoInferenceFor(call[c], k)
                /\ Returned(call[c]) => Slot(call[c], k) = call[c].prior[k]

\* C2 (amended): a cache read that finds an unexpired entry under the text's
\* key sends that position to no model inference, and the call returns the
\* vector held in that entry for it.
C2_LiveEntryServedFromCache ==
    \A c \in DOMAIN call :
        \A k \in 1 .. Len(call[c].obs) :
            call[c].obs[k].st = "live" =>
                /\ call[c].pc # "raised" => NoInferenceFor(call[c], k)
                /\ Returned(call[c]) => Slot(call[c], k) = call[c].obs[k].vec

\* Witness C2: a later call for an already encoded text returned it from an
\* entry that had aged but not expired.
C2_Witness ==
    \E c \in DOMAIN call :
        /\ Returned(call[c]) /\ now > 0 /\ call[c].modelCalls = <<>>
        /\ \E k \in 1 .. Len(call[c].obs) :
              /\ call[c].prior[k] # None
              /\ call[c].obs[k].st = "live"
              /\ Slot(call[c], k) = call[c].prior[k]

\* C3: a batch call invokes the model at most once, with exactly the texts
\* whose cache read missed, in input order, and not at all when every read hit.
C3_OneInferenceOverMisses ==
    \A c \in DOMAIN call :
        call[c].kind = "batch" =>
            /\ Len(call[c].modelCalls) <= 1
            /\ call[c].modelCalls # <<>> =>
                  call[c].modelCalls[1] = MissedTexts(call[c])
            /\ (Returned(call[c]) /\ MissedTexts(call[c]) = <<>>) =>
                  call[c].modelCalls = <<>>

\* Witness C3: a returned batch with a hit followed by a miss and one inference.
C3_Witness ==
    \E c \in DOMAIN call :
        /\ call[c].kind = "batch" /\ Returned(call[c])
        /\ Len(call[c].obs) = 2
        /\ call[c].obs[1].st = "live" /\ call[c].obs[2].st # "live"
        /\ Len(call[c].modelCalls) = 1

\* C4 (as claimed): a call in which a cache read or write raised still
\* returns; the cache failure does not reach the caller.
C4_CacheFailureNotRaised ==
    \A c \in DOMAIN call : call[c].cacheErr => call[c].pc # "raised"

\* C5: a finished batch call either raised (no result) or returned a list as
\* long as its input with a vector in every slot.
C5_NoPartialBatchResult ==
    \A c \in DOMAIN call :
        (call[c].kind = "batch" /\ call[c].pc \in {"returned", "raised"}) =>
            \/ call[c].pc = "raised" /\ call[c].result = None
            \/ /\ Returned(call[c])
               /\ Len(call[c].result) = Len(call[c].texts)
               /\ \A k \in 1 .. Len(call[c].result) : call[c].result[k] # None

\* Witness C5: a batch that raised after filling one of its two missing slots,
\* and returned nothing.
C5_Witness ==
    \E c \in DOMAIN call :
        /\ call[c].kind = "batch" /\ call[c].pc = "raised"
        /\ Len(call[c].texts) = 2 /\ call[c].wrote = {1}
        /\ call[c].cacheErr /\ call[c].result = None

\* C6: when the model raised, the call raised and returned no embeddings.
C6_ModelErrorPropagates ==
    \A c \in DOMAIN call :
        call[c].modelErr => (call[c].pc = "raised" /\ call[c].result = None)

\* Witness C6: the model raised in a batch that had a cache hit.
C6_Witness ==
    \E c \in DOMAIN call :
        /\ call[c].kind = "batch" /\ call[c].modelErr /\ call[c].pc = "raised"
        /\ \E k \in 1 .. Len(call[c].obs) : call[c].obs[k].st = "live"

\* C7 (as claimed): under any interleaving the entry stored under the key of
\* text t holds the embedding of t, and every caller receives that vector.
C7_EntryHoldsEmbeddingOfItsText ==
    /\ \A t \in Texts :
          CacheKey(t) \in DOMAIN cache =>
              Loads(cache[CacheKey(t)].val) = Embed(t)
    /\ \A c \in DOMAIN call :
          Returned(call[c]) =>
              \A k \in 1 .. Len(call[c].texts) :
                  Slot(call[c], k) = Embed(call[c].texts[k])

\* C8: the step that cancels a call leaves the cache as it was, and the
\* cancelled call has written none or all of the entries it would write.
C8_CancelWritesNothingPartial ==
    [][\A c \in DOMAIN call :
          (call[c].pc # "cancelled" /\ call'[c].pc = "cancelled") =>
              /\ cache' = cache
              /\ \/ call[c].wrote = {}
                 \/ /\ call[c].pc = "setex"
                    /\ call[c].wrote = Range(call[c].uncached_indices)]_vars

\* Witness C8: a cancelled call, with an entry cached earlier still retrievable.
C8_Witness ==
    \E c \in DOMAIN call :
        /\ call[c].pc = "cancelled"
        /\ \E t \in Texts : Truthy(RedisGet(cache, CacheKey(t), now))

\* C9: a read that finds an entry whose expiry has passed is a miss: the
\* position goes to the model, and a call that returns has run the model on
\* that text and written its entry again.
C9_ExpiredEntryIsAbsent ==
    \A c \in DOMAIN call :
        \A k \in 1 .. Len(call[c].obs) :
            call[c].obs[k].st = "expired" =>
                /\ call[c].pc # "raised" => ~ServedFromCache(call[c], k)
                /\ Returned(call[c]) =>
                      /\ Len(call[c].modelCalls) = 1
                      /\ call[c].texts[k] \in Range(call[c].modelCalls[1])
                      /\ k \in call[c].wrote

\* Witness C9: a returned call that had read an expired entry.
C9_Witness ==
    \E c \in DOMAIN call :
        /\ Returned(call[c])
        /\ \E k \in 1 .. Len(call[c].obs) :
              call[c].obs[k].st = "expired" /\ k \in call[c].wrote

\* C10 (as claimed): the vector returned for a text depends only on the text:
\* any two returned slots for the same text hold the identical vector.
C10_VectorDependsOnlyOnText ==
    \A a \in DOMAIN call : \A b \in DOMAIN call :
        (Returned(call[a]) /\ Returned(call[b])) =>
            \A i \in 1 .. Len(call[a].texts) : \A j \in 1 .. Len(call[b].texts) :
                call[a].texts[i] = call[b].texts[j] =>
                    Slot(call[a], i) = Slot(call[b], j)

\* C11 (as claimed): when a batch call raised part-way through its write-back
\* loop, the entries it had already written are still in the cache and each
\* holds the embedding of its own text.
C11_WrittenEntriesKeptAndCorrect ==
    \A c \in DOMAIN call :
        (call[c].kind = "batch" /\ call[c].pc = "raised"
            /\ call[c].cacheErr /\ call[c].wrote # {}) =>
            \A k \in call[c].wrote :
                /\ CacheKey(call[c].texts[k]) \in DOMAIN cache
                /\ Loads(cache[CacheKey(call[c].texts[k])].val)
                      = Embed(call[c].texts[k])

\* ------------------------------------------------------ vector operations
\* Bounds of the vector operations' inputs.
MaxVecs == 3
MaxK == 2

\* Vectors: integer vectors of dimension 2, the empty vector and a vector of
\* dimension 1 (a malformed / mismatching input).
Vecs2 == {<<0, 0>>, <<1, 0>>, <<0, 1>>, <<1, 1>>, <<-1, 0>>}
VecInputs == Vecs2 \cup {<<>>, <<1>>}

\* Every list of at most n candidate vectors (the vector of dimension 1 makes
\* a list ragged or of another dimension than the query).
VecLists(n) == UNION {[1 .. m -> Vecs2 \cup {<<1>>}] : m \in 0 .. n}

\* The vectors and lists given to clustering and dimensionality reduction.
Points == {<<0, 0>>, <<1, 0>>, <<1, 1>>, <<1>>}
PointLists(n) == UNION {[1 .. m -> Points] : m \in 0 .. n}

SeqSum(s) ==
    LET F[n \in 0 .. Len(s)] == IF n = 0 THEN 0 ELSE F[n - 1] + s[n]
    IN F[Len(s)]

Dot(a, b) == SeqSum([n \in 1 .. Len(a) |-> a[n] * b[n]])

ZeroNorm(v) == \A n \in 1 .. Len(v) : v[n] = 0

Sign(x) == IF x > 0 THEN 1 ELSE IF x < 0 THEN -1 ELSE 0

\* A float result: a number of similarity units, or NaN.
Float(u) == [nan |-> FALSE, units |-> u]
NaN == [nan |-> TRUE, units |-> 0]

\* sklearn cosine_similarity of two vectors of the same non-zero dimension.
\* A score c in [-1, 1] is held exactly as sign(c) * 2 * c * c (an integer for
\* the vectors above, and monotone in c): 2 is c = 1, 1 is c = 0.7071, 0 is
\* c = 0.  sklearn normalises with a zero norm replaced by 1, so a zero vector
\* scores 0.
CosineSimilarity(a, b) ==
    IF ZeroNorm(a) \/ ZeroNorm(b) THEN 0
    ELSE Sign(Dot(a, b)) * ((2 * Dot(a, b) * Dot(a, b)) \div (Dot(a, a) * Dot(b, b)))

\* cosine_similarity raises (check_array / check_pairwise_arrays) on an array
\* without features and on arrays of different dimension.
PairRaises(a, b) == Len(a) = 0 \/ Len(b) = 0 \/ Len(a) # Len(b)

\* calculate_similarity: the cosine similarity, or 0.0 when anything raised.
calculate_similarity_naive(embedding1, embedding2) ==
    IF PairRaises(embedding1, embedding2) THEN Float(0)
    ELSE IF ZeroNorm(embedding1) \/ ZeroNorm(embedding2) THEN NaN
    ELSE Float(CosineSimilarity(embedding1, embedding2))
calculate_similarity(embedding1, embedding2) ==
    IF PairRaises(embedding1, embedding2) THEN Float(0)
    ELSE Float(CosineSimilarity(embedding1, embedding2))

\* np.array(candidate_embeddings) and cosine_similarity(query_vec,
\* candidate_vecs) raise on an empty list (a 1-D array), on a ragged list and
\* on a dimension other than the query's.
MatrixRaises(query, cands) ==
    \/ cands = <<>>
    \/ Len(query) = 0
    \/ \E n \in 1 .. Len(cands) : Len(cands[n]) # Len(query)

\* similarities = cosine_similarity(query_vec, candidate_vecs)[0]
Similarities(query, cands) ==
    [n \in 1 .. Len(cands) |-> CosineSimilarity(query, cands[n])]

\* valid_indices = np.where(similarities >= threshold)[0]  (positions from 1)
ValidIndices(sims, threshold) ==
    SelectSeq([n \in 1 .. Len(sims) |-> n], LAMBDA n : sims[n] >= threshold)

\* valid_similarities = similarities[valid_indices]
ValidSimilarities(sims, vi) == [n \in 1 .. Len(vi) |-> sims[vi[n]]]

\* np.argsort(valid_similarities): the default sort is not stable, so any
\* ordering of the positions that is ascending in the values can come out.
ArgSorts(vs) ==
    {p \in [1 .. Len(vs) -> 1 .. Len(vs)] :
        /\ \A a, b \in 1 .. Len(vs) : a # b => p[a] # p[b]
        /\ \A a, b \in 1 .. Len(vs) : a < b => vs[p[a]] <= vs[p[b]]}

\* s[::-1]
Reverse(s) == [n \in 1 .. Len(s) |-> s[Len(s) + 1 - n]]

\* s[:k]  (a negative k counts from the end)
SliceTo(s, k) ==
    LET m == IF k >= 0 THEN (IF k < Len(s) THEN k ELSE Len(s))
             ELSE (IF Len(s) + k > 0 THEN Len(s) + k ELSE 0)
    IN [n \in 1 .. m |-> s[n]]

\* sorted_indices = np.argsort(valid_similarities)[::-1][:top_k]
SortedIndicesSliceFirst(order, top_k) == Reverse(SliceTo(order, top_k))
SortedIndices(order, top_k) == SliceTo(Reverse(order), top_k)

\* (int(valid_indices[idx]), float(valid_similarities[idx]))
ResultPairFilteredPosition(vi, vs, idx) == <<idx, vs[idx]>>
ResultPair(vi, vs, idx) == <<vi[idx], vs[idx]>>

\* find_similar_embeddings, for one outcome `order` of the argsort.
find_similar_embeddings(query, cands, top_k, threshold, order) ==
    LET sims == Similarities(query, cands)
        vi == ValidIndices(sims, threshold)
        vs == ValidSimilarities(sims, vi)
        sorted == SortedIndices(order, top_k)
    IN [n \in 1 .. Len(sorted) |-> ResultPair(vi, vs, sorted[n])]

\* Thresholds in similarity units (0.5 lies between 0 and 1).
Thresholds == {-2, 0, 1, 2}
Queries == {<<1, 0>>, <<1, 1>>, <<0, 0>>}

SimilarityOps ==
    [fn : {"calculate_similarity"}, done : {FALSE}, failed : {FALSE},
     embedding1 : VecInputs, embedding2 : VecInputs, result : {None}]

FindSimilarOps ==
    [fn : {"find_similar_embeddings"}, done : {FALSE}, failed : {FALSE},
     query : Queries, candidates : VecLists(MaxVecs),
     top_k : 0 .. MaxK, threshold : Thresholds, result : {None}]

\* The cache store after a call of calculate_similarity,
\* find_similar_embeddings, cluster_embeddings, reduce_dimensionality or
\* get_embedding_stats: none of them refers to self.redis_client or
\* self.model, on the normal path or in the except branch.
VectorOpStoreCleared(store) == <<>>
VectorOpStore(store) == store

\* calculate_similarity(embedding1, embedding2) runs.
CalculateSimilarity ==
    /\ op.fn = "calculate_similarity" /\ ~op.done
    /\ op' = [op EXCEPT !.done = TRUE,
                        !.failed = PairRaises(op.embedding1, op.embedding2),
                        !.result = calculate_similarity(op.embedding1, op.embedding2)]
    /\ cache' = VectorOpStore(cache)
    /\ UNCHANGED <<now, call, submitted>>

\* find_similar_embeddings(query, candidates, top_k, threshold) runs.
FindSimilar ==
    /\ op.fn = "find_similar_embeddings" /\ ~op.done
    /\ IF MatrixRaises(op.query, op.candidates)
       THEN op' = [op EXCEPT !.done = TRUE, !.failed = TRUE, !.result = <<>>]
       ELSE \E order \in ArgSorts(ValidSimilarities(
                    Similarities(op.query, op.candidates),
                    ValidIndices(Similarities(op.query, op.candidates), op.threshold))) :
               op' = [op EXCEPT !.done = TRUE,
                         !.result = find_similar_embeddings(op.query, op.candidates,
                                        op.top_k, op.threshold, order)]
    /\ cache' = VectorOpStore(cache)
    /\ UNCHANGED <<now, call, submitted>>

\* ------------------------------------------------------------- clustering
\* Bounds of the clustering inputs: requested cluster counts 0 .. MaxClusters
\* and the number of Lloyd iterations of one KMeans run (sklearn: max_iter).
MaxClusters == 2
MaxIter == 3

Fact(n) == LET F[m \in 0 .. n] == IF m = 0 THEN 1 ELSE m * F[m - 1] IN F[n]

\* The points and the centers are held multiplied by Fact(n), n the number of
\* points, so that every mean of at most n points is an integer vector.
Scaled(X) == [i \in 1 .. Len(X) |-> [d \in 1 .. Len(X[i]) |-> Fact(Len(X)) * X[i][d]]]

SqDist(a, b) == SeqSum([d \in 1 .. Len(a) |-> (a[d] - b[d]) * (a[d] - b[d])])

\* Sum of the points of P whose position is in S, and the mean of all points.
SumOf(P, S) ==
    [d \in 1 .. Len(P[1]) |-> SeqSum([i \in 1 .. Len(P) |-> IF i \in S THEN P[i][d] ELSE 0])]
DataMean(P) == [d \in 1 .. Len(P[1]) |-> SumOf(P, 1 .. Len(P))[d] \div Len(P)]

\* np.array(embeddings) / KMeans(n_clusters).fit_predict raise on an empty
\* list, a ragged list, vectors without features and n_clusters < 1.
ClusterRaises(embeddings, n_clusters) ==
    \/ embeddings = <<>>
    \/ \E i \in 1 .. Len(embeddings) : Len(embeddings[i]) # Len(embeddings[1])
    \/ \E i \in 1 .. Len(embeddings) : Len(embeddings[i]) = 0
    \/ n_clusters < 1

\* if len(embeddings) < n_clusters: n_clusters = len(embeddings)
EffectiveClustersRequested(embeddings, n_clusters) == n_clusters
EffectiveClusters(embeddings, n_clusters) ==
    IF Len(embeddings) < n_clusters THEN Len(embeddings) ELSE n_clusters

\* Squared distance of point i to the nearest of the chosen points.
ClosestDistSq(P, chosen, i) ==
    LET ds == {SqDist(P[i], P[chosen[j]]) : j \in 1 .. Len(chosen)}
    IN CHOOSE m \in ds : \A x \in ds : m <= x

\* k-means++ seeding: the first center is any point; each further center is
\* drawn with probability proportional to its squared distance to the chosen
\* ones, so it is a point not yet covered while one exists.
NextCenterChoices(P, chosen) ==
    LET far == {i \in 1 .. Len(P) : ClosestDistSq(P, chosen, i) > 0}
    IN IF far = {} THEN 1 .. Len(P) ELSE far

RECURSIVE KMeansPlusPlus(_, _)
KMeansPlusPlus(P, k) ==
    IF k = 1 THEN {<<i>> : i \in 1 .. Len(P)}
    ELSE UNION {{Append(s, i) : i \in NextCenterChoices(P, s)} : s \in KMeansPlusPlus(P, k - 1)}

InitCenters(P, k) == {[j \in 1 .. k |-> P[s[j]]] : s \in KMeansPlusPlus(P, k)}

\* E-step: the label of a point is the first nearest center (labels from 0).
Nearest(p, centers) ==
    CHOOSE j \in 1 .. Len(centers) :
        /\ \A m \in 1 .. Len(centers) : SqDist(p, centers[j]) <= SqDist(p, centers[m])
        /\ \A m \in 1 .. j - 1 : SqDist(p, centers[m]) > SqDist(p, centers[j])
Labels(P, centers) == [i \in 1 .. Len(P) |-> Nearest(P[i], centers) - 1]

Members(labels, l) == {i \in 1 .. Len(labels) : labels[i] = l}

\* The clusters without members, in ascending order (positions from 1).
EmptyClusters(labels, k) ==
    SelectSeq([j \in 1 .. k |-> j], LAMBDA j : Members(labels, j - 1) = {})

\* Squared distance of every point to the center of its label.
DistToCenters(P, centers, labels) ==
    [i \in 1 .. Len(P) |-> SqDist(P[i], centers[labels[i] + 1])]

\* Empty clusters are relocated to the points farthest from their centers
\* (np.argpartition: any choice among equally far points, in any order).
FarFromCenters(dists, n_empty) ==
    {far \in [1 .. n_empty -> 1 .. Len(dists)] :
        /\ \A a, b \in 1 .. n_empty : a # b => far[a] # far[b]
        /\ \A a \in 1 .. n_empty : \A i \in 1 .. Len(dists) :
               (\A b \in 1 .. n_empty : far[b] # i) => dists[far[a]] >= dists[i]}

\* M-step: every center becomes the mean of its members.  An empty cluster
\* takes one of the far points, which leaves its old cluster; a cluster that
\* is left without members keeps the zero sum of the centred data, which is
\* the mean of all points.
MStep(P, k, labels, far) ==
    LET empty == EmptyClusters(labels, k)
        moved == {far[a] : a \in 1 .. Len(empty)}
        Center(j) ==
            IF Members(labels, j - 1) = {}
            THEN P[far[CHOOSE a \in 1 .. Len(empty) : empty[a] = j]]
            ELSE LET rest == Members(labels, j - 1) \ moved
                 IN IF rest = {} THEN DataMean(P)
                    ELSE [d \in 1 .. Len(P[1]) |-> SumOf(P, rest)[d] \div Cardinality(rest)]
    IN [j \in 1 .. k |-> Center(j)]

\* Lloyd iterations from the given centers: the <<centers, labels>> a run can
\* end with.  A run stops when the labels repeat, when the centers no longer
\* move, or after `iters` iterations; unless the labels repeated, they are
\* assigned once more against the final centers.  The choice among equally
\* far points is a function of the distances and the number of empty clusters:
\* `picked` holds the choices made so far, and the same arguments get the same
\* choice again.
RECURSIVE LloydRuns(_, _, _, _, _)
LloydRuns(P, centers, labels_old, iters, picked) ==
    LET labels == Labels(P, centers)
        dists == DistToCenters(P, centers, labels)
        n_empty == Len(EmptyClusters(labels, Len(centers)))
        key == <<dists, n_empty>>
        fars == IF key \in DOMAIN picked THEN {picked[key]}
                ELSE FarFromCenters(dists, n_empty)
    IN UNION {LET new == MStep(P, Len(centers), labels, far)
              IN IF labels = labels_old THEN {<<new, labels>>}
                 ELSE IF new = centers \/ iters <= 1 THEN {<<new, Labels(P, new)>>}
                 ELSE LloydRuns(P, new, labels, iters - 1,
                          [d \in DOMAIN picked \cup {key} |->
                              IF d = key THEN far ELSE picked[d]]) :
                 far \in fars}

\* KMeans(n_clusters=k, random_state=42, n_init=10).fit_predict(X): the best
\* of ten seeded runs, which is the outcome of one of the possible runs.
KMeans(X, k) ==
    UNION {LloydRuns(Scaled(X), c, [i \in 1 .. Len(X) |-> -1], MaxIter, <<>>) :
              c \in InitCenters(Scaled(X), k)}

\* kmeans.inertia_
InertiaAboutMean(P, centers, labels) ==
    SeqSum([i \in 1 .. Len(P) |-> SqDist(P[i], DataMean(P))])
Inertia(P, centers, labels) ==
    SeqSum([i \in 1 .. Len(P) |-> SqDist(P[i], centers[labels[i] + 1])])

\* clusters: label -> positions (from 1) of the vectors with that label.
GroupByLabel(labels) ==
    [l \in {labels[i] : i \in 1 .. Len(labels)} |->
        SelectSeq([i \in 1 .. Len(labels) |-> i], LAMBDA i : labels[i] = l)]

\* The except branch of cluster_embeddings.
ClusterFallbackRequested(embeddings, n_clusters) ==
    [cluster_labels |-> [i \in 1 .. Len(embeddings) |-> 0],
     cluster_centers |-> <<>>,
     clusters |-> [l \in {0} |-> [i \in 1 .. Len(embeddings) |-> i]],
     n_clusters |-> n_clusters,
     inertia |-> 0]
ClusterFallback(embeddings, n_clusters) ==
    [cluster_labels |-> [i \in 1 .. Len(embeddings) |-> 0],
     cluster_centers |-> <<>>,
     clusters |-> [l \in {0} |-> [i \in 1 .. Len(embeddings) |-> i]],
     n_clusters |-> 1,
     inertia |-> 0]

\* cluster_embeddings: the results the call can return.
cluster_embeddings(embeddings, n_clusters) ==
    LET k == EffectiveClusters(embeddings, n_clusters)
    IN IF ClusterRaises(embeddings, k) THEN {ClusterFallback(embeddings, n_clusters)}
       ELSE {[cluster_labels |-> run[2],
              cluster_centers |-> run[1],
              clusters |-> GroupByLabel(run[2]),
              n_clusters |-> k,
              inertia |-> Inertia(Scaled(embeddings), run[1], run[2])] :
                 run \in KMeans(embeddings, k)}

ClusterOps ==
    [fn : {"cluster_embeddings"}, done : {FALSE}, failed : {FALSE},
     embeddings : PointLists(MaxVecs), n_clusters : 0 .. MaxClusters, result : {None}]

\* cluster_embeddings(embeddings, n_clusters) runs.
ClusterEmbeddings ==
    /\ op.fn = "cluster_embeddings" /\ ~op.done
    /\ \E res \in cluster_embeddings(op.embeddings, op.n_clusters) :
          op' = [op EXCEPT !.done = TRUE,
                    !.failed = ClusterRaises(op.embeddings,
                                   EffectiveClusters(op.embeddings, op.n_clusters)),
                    !.result = res]
    /\ cache' = VectorOpStore(cache)
    /\ UNCHANGED <<now, call, submitted>>

\* --------------------------------------------------- dimensionality reduction
\* Bound of the requested number of components.
MaxDims == 3

\* np.array(embeddings) / PCA(n_components).fit_transform raise on an empty
\* list, a ragged list, vectors without features and on n_components greater
\* than min(n_samples, n_features).
PCARaises(embeddings, n_components) ==
    \/ embeddings = <<>>
    \/ \E i \in 1 .. Len(embeddings) : Len(embeddings[i]) # Len(embeddings[1])
    \/ \E i \in 1 .. Len(embeddings) : Len(embeddings[i]) = 0
    \/ n_components > Len(embeddings)
    \/ n_components > Len(embeddings[1])

\* Coordinate c of the projection of vector v: the floats PCA computes are
\* kept symbolic, naming the component and the projected vector.
Projection(v, c) == <<"pc", c, v>>

\* float(np.random.randn())
RandN == <<"randn">>

\* pca.fit_transform(embedding_matrix).tolist()
FitTransform(embeddings, n_components) ==
    [i \in 1 .. Len(embeddings) |->
        [c \in 1 .. n_components |-> Projection(embeddings[i], c)]]

\* The except branch of reduce_dimensionality: random 2D points.
ReduceFallback(embeddings, n_components) ==
    [i \in 1 .. Len(embeddings) |-> <<RandN, RandN>>]

reduce_dimensionality(embeddings, n_components) ==
    IF PCARaises(embeddings, n_components)
    THEN ReduceFallback(embeddings, n_components)
    ELSE FitTransform(embeddings, n_components)

ReduceOps ==
    [fn : {"reduce_dimensionality"}, done : {FALSE}, failed : {FALSE},
     embeddings : PointLists(MaxVecs), n_components : 1 .. MaxDims, result : {None}]

\* reduce_dimensionality(embeddings, n_components) runs.
ReduceDimensionality ==
    /\ op.fn = "reduce_dimensionality" /\ ~op.done
    /\ op' = [op EXCEPT !.done = TRUE,
                        !.failed = PCARaises(op.embeddings, op.n_components),
                        !.result = reduce_dimensionality(op.embeddings, op.n_components)]
    /\ cache' = VectorOpStore(cache)
    /\ UNCHANGED <<now, call, submitted>>

\* -------------------------------------------------------------- statistics
\* {} : the empty dict.
EmptyDict == [x \in {} |-> x]

\* The floats of the statistics are kept symbolic, naming what they are
\* computed over; minimum and maximum are computed on the similarity units.
Norm(v) == <<"norm", Dot(v, v)>>
Mean(values) == <<"mean", values>>
Std(values) == <<"std", values>>
MinOf(values) == CHOOSE m \in Range(values) : \A x \in Range(values) : m <= x
MaxOf(values) == CHOOSE m \in Range(values) : \A x \in Range(values) : m >= x

\* similarities[mask]: the pairwise similarities without the diagonal, row by
\* row.
OffDiagonal(embeddings) ==
    LET n == Len(embeddings)
        cells == SelectSeq([c \in 1 .. n * n |-> c],
                     LAMBDA c : ((c - 1) \div n) # ((c - 1) % n))
    IN [c \in 1 .. Len(cells) |->
           CosineSimilarity(embeddings[((cells[c] - 1) \div n) + 1],
                            embeddings[((cells[c] - 1) % n) + 1])]

\* np.array / np.linalg.norm(axis=1) / cosine_similarity raise on a ragged
\* list and on vectors without features; np.min and np.max raise on the empty
\* off-diagonal of a single vector.
StatsRaises(embeddings) ==
    \/ \E i \in 1 .. Len(embeddings) : Len(embeddings[i]) # Len(embeddings[1])
    \/ \E i \in 1 .. Len(embeddings) : Len(embeddings[i]) = 0
    \/ Len(embeddings) = 1

\* The except branch of get_embedding_stats: log and return {}.
OnStatsExceptionRaise(embeddings) == [raised |-> TRUE, value |-> EmptyDict]
OnStatsException(embeddings) == [raised |-> FALSE, value |-> EmptyDict]

\* get_embedding_stats: whether the call raised to its caller, and its value.
get_embedding_stats(embeddings) ==
    IF embeddings = <<>> THEN [raised |-> FALSE, value |-> EmptyDict]
    ELSE IF StatsRaises(embeddings) THEN OnStatsException(embeddings)
    ELSE [raised |-> FALSE,
          value |->
            [count |-> Len(embeddings),
             dimension |-> Len(embeddings[1]),
             mean_norm |-> Mean([i \in 1 .. Len(embeddings) |-> Norm(embeddings[i])]),
             std_norm |-> Std([i \in 1 .. Len(embeddings) |-> Norm(embeddings[i])]),
             mean_values |-> [d \in 1 .. Len(embeddings[1]) |->
                                Mean([i \in 1 .. Len(embeddings) |-> embeddings[i][d]])],
             std_values |-> [d \in 1 .. Len(embeddings[1]) |->
                                Std([i \in 1 .. Len(embeddings) |-> embeddings[i][d]])],
             mean_similarity |-> Mean(OffDiagonal(embeddings)),
             std_similarity |-> Std(OffDiagonal(embeddings)),
             min_similarity |-> MinOf(OffDiagonal(embeddings)),
             max_similarity |-> MaxOf(OffDiagonal(embeddings))]]

StatsOps ==
    [fn : {"get_embedding_stats"}, done : {FALSE}, failed : {FALSE}, raised : {FALSE},
     embeddings : PointLists(MaxVecs), result : {None}]

\* get_embedding_stats(embeddings) runs.
GetEmbeddingStats ==
    /\ op.fn = "get_embedding_stats" /\ ~op.done
    /\ op' = [op EXCEPT !.done = TRUE,
                        !.failed = op.embeddings # <<>> /\ StatsRaises(op.embeddings),
                        !.raised = get_embedding_stats(op.embeddings).raised,
                        !.result = get_embedding_stats(op.embeddings).value]
    /\ cache' = VectorOpStore(cache)
    /\ UNCHANGED <<now, call, submitted>>

\* --------------------------------------------------------- semantic search
\* The embeddings documents carry.  With the vectors Embed gives the queries,
\* CosineSimilarity rounds a score down to the unit below; for these document
\* vectors every score is either at least 0.7071 or below 0.5, so rounding
\* never changes the comparison with the default threshold.
DocVecs == <<<<0, 1>>, <<1, 0>>, <<1, 1>>>>

\* A document: a dict with an id, and with no 'embedding' key (shape 0), an
\* empty embedding (shape 1) or one of the vectors above.
MakeDoc(i, shape) ==
    IF shape = 0 THEN [id |-> i]
    ELSE IF shape = 1 THEN [id |-> i, embedding |-> <<>>]
    ELSE [id |-> i, embedding |-> DocVecs[shape - 1]]

DocLists(n) ==
    UNION {{[i \in 1 .. m |-> MakeDoc(i, f[i])] : f \in [1 .. m -> 0 .. Len(DocVecs) + 1]} :
              m \in 0 .. n}

\* find_similar_embeddings' default threshold 0.5, in similarity units: of the
\* exact scores 0, 0.7071 and 1 (units 0, 1, 2) those from unit 1 on pass.
DefaultThreshold == 1

\* 'embedding' in doc and doc['embedding']
HasEmbedding(doc) == "embedding" \in DOMAIN doc /\ doc.embedding # <<>>

\* doc = valid_docs[idx].copy(); doc['similarity_score'] = similarity
WithScore(doc, similarity) ==
    [k \in DOMAIN doc \cup {"similarity_score"} |->
        IF k = "similarity_score" THEN similarity ELSE doc[k]]

\* The ranked results built from similar_indices over valid_docs.
RankedResults(valid_docs, similar_indices) ==
    [n \in 1 .. Len(similar_indices) |->
        WithScore(valid_docs[similar_indices[n][1]], similar_indices[n][2])]

SearchOps ==
    [fn : {"semantic_search"}, done : {FALSE}, failed : {FALSE},
     query : Texts, documents : DocLists(MaxVecs), top_k : 0 .. MaxK,
     query_embedding : {None}, result : {None}]

\* semantic_search(query, documents, top_k) runs.  asyncio.run(
\* generate_embedding(query)) raises when an event loop is already running,
\* when the cache raises or when the model raises; otherwise it returns the
\* cached vector on a hit, or encodes the query and writes the cache entry.
SemanticSearch ==
    /\ op.fn = "semantic_search" /\ ~op.done
    /\ \E ok \in BOOLEAN :
         IF ~ok
         THEN /\ op' = [op EXCEPT !.done = TRUE, !.failed = TRUE, !.result = <<>>]
              /\ cache' = cache
         ELSE LET cached == RedisGet(cache, CacheKey(op.query), now)
                  query_embedding == IF Truthy(cached) THEN Loads(cached)
                                     ELSE ModelEncodeOne(op.query)
                  valid_docs == SelectSeq(op.documents, HasEmbedding)
                  doc_embeddings == [n \in 1 .. Len(valid_docs) |-> valid_docs[n].embedding]
                  sims == Similarities(query_embedding, doc_embeddings)
                  vi == ValidIndices(sims, DefaultThreshold)
              IN /\ cache' = IF Truthy(cached) THEN cache
                             ELSE RedisSetex(cache, CacheKey(op.query), cache_ttl,
                                      Dumps(query_embedding), now)
                 /\ IF doc_embeddings = <<>> \/ MatrixRaises(query_embedding, doc_embeddings)
                    THEN op' = [op EXCEPT !.done = TRUE, !.result = <<>>,
                                          !.query_embedding = query_embedding]
                    ELSE \E order \in ArgSorts(ValidSimilarities(sims, vi)) :
                            op' = [op EXCEPT
                                     !.done = TRUE,
                                     !.query_embedding = query_embedding,
                                     !.result = RankedResults(valid_docs,
                                         find_similar_embeddings(query_embedding,
                                             doc_embeddings, op.top_k,
                                             DefaultThreshold, order))]
    /\ UNCHANGED <<now, call, submitted>>

\* ------------------------------------- specification of the vector operations
\* One call of a vector operation on inputs drawn from the bounded sets, made
\* when the cache is empty or holds the entry generate_embedding(0) wrote.
VecCaches ==
    {<<>>, RedisSetex(<<>>, CacheKey(0), cache_ttl, Dumps(Embed(0)), 0)}

InitVec ==
    /\ cache \in VecCaches
    /\ now = 0
    /\ call = [c \in {"c1"} |-> IdleCall]
    /\ submitted = 0
    /\ op \in SimilarityOps \cup FindSimilarOps \cup ClusterOps \cup ReduceOps
                \cup StatsOps \cup SearchOps

NextVec ==
    \/ CalculateSimilarity
    \/ FindSimilar
    \/ ClusterEmbeddings
    \/ ReduceDimensionality
    \/ GetEmbeddingStats
    \/ SemanticSearch

SpecVec == InitVec /\ [][NextVec]_vars

\* ------------------------------------------ properties of the vector operations
Done(fn) == op.fn = fn /\ op.done

\* The pairs returned by a finished find_similar_embeddings call, and the
\* score of every candidate of a well-formed call.
Pairs == op.result
IndexOf(n) == Pairs[n][1]
ScoreOf(n) == Pairs[n][2]
Scores == Similarities(op.query, op.candidates)
Qualifying == {n \in 1 .. Len(op.candidates) : Scores[n] >= op.threshold}
ReturnedIndices == {IndexOf(n) : n \in 1 .. Len(Pairs)}
WellFormedFind ==
    Done("find_similar_embeddings") /\ ~MatrixRaises(op.query, op.candidates)

\* C12: every (index, score) pair returned by find_similar_embeddings has
\* score >= threshold, its index is a position of the candidate list, its score
\* is the similarity of the query to the candidate at that position, and no
\* index is returned twice.
C12_PairsAreQualifyingCandidates ==
    Done("find_similar_embeddings") =>
        /\ \A n \in 1 .. Len(Pairs) :
              /\ IndexOf(n) \in 1 .. Len(op.candidates)
              /\ ScoreOf(n) >= op.threshold
              /\ ScoreOf(n) = CosineSimilarity(op.query, op.candidates[IndexOf(n)])
        /\ \A a, b \in 1 .. Len(Pairs) : a # b => IndexOf(a) # IndexOf(b)

\* A call that returned two pairs after the threshold dropped the first
\* candidate, so that positions after the filter differ from positions in the
\* candidate list.
C12_Witness ==
    /\ WellFormedFind
    /\ Len(Pairs) = 2
    /\ 1 \notin Qualifying
    /\ Len(op.candidates) = 3

\* C13 (as claimed): the returned list is sorted by score descending, and of
\* two candidates with equal score the one with the smaller index comes first.
C13_SortedDescTiesByIndex ==
    Done("find_similar_embeddings") =>
        \A a, b \in 1 .. Len(Pairs) :
            a < b => \/ ScoreOf(a) > ScoreOf(b)
                     \/ (ScoreOf(a) = ScoreOf(b) /\ IndexOf(a) < IndexOf(b))

Min(a, b) == IF a < b THEN a ELSE b

\* C14: a well-formed call returns exactly min(top_k, q) pairs, q the number
\* of candidates with score >= threshold; no qualifying candidate left out
\* scores strictly higher than a returned one; and the result is empty when
\* no candidate qualifies or the candidate list is empty.
C14_ExactlyTopK ==
    Done("find_similar_embeddings") =>
        /\ op.candidates = <<>> => Pairs = <<>>
        /\ ~MatrixRaises(op.query, op.candidates) =>
              /\ Len(Pairs) = Min(op.top_k, Cardinality(Qualifying))
              /\ Qualifying = {} => Pairs = <<>>
              /\ \A n \in Qualifying \ ReturnedIndices :
                    \A m \in 1 .. Len(Pairs) : Scores[n] <= ScoreOf(m)

\* A call where more candidates qualify than top_k allows and a qualifying
\* candidate with a strictly lower score was left out.
C14_Witness ==
    /\ WellFormedFind
    /\ op.top_k >= 1
    /\ Len(Pairs) = op.top_k
    /\ \E n \in Qualifying \ ReturnedIndices : Scores[n] < ScoreOf(Len(Pairs))

\* C15: calculate_similarity returns exactly 0.0, never NaN and never an
\* exception, whenever one of the two vectors has zero norm.
C15_ZeroNormGivesZero ==
    (Done("calculate_similarity")
        /\ (ZeroNorm(op.embedding1) \/ ZeroNorm(op.embedding2))) =>
        op.result = Float(0)

\* A call on a zero vector and a non-zero vector of the same dimension, which
\* the similarity computation itself, not the exception handler, answers.
C15_Witness ==
    /\ Done("calculate_similarity")
    /\ ~op.failed
    /\ ZeroNorm(op.embedding1)
    /\ ~ZeroNorm(op.embedding2)
    /\ op.result = Float(0)

\* A non-empty list of vectors of one non-zero dimension.
WellFormed(embeddings) ==
    /\ embeddings # <<>>
    /\ \A i \in 1 .. Len(embeddings) :
          Len(embeddings[i]) = Len(embeddings[1]) /\ Len(embeddings[i]) > 0

DistinctVectors(embeddings) == {embeddings[i] : i \in 1 .. Len(embeddings)}

\* C16: for a non-empty vector list of size n and requested k >= 1,
\* cluster_embeddings uses k_eff = min(k, n): it returns one label per vector,
\* each in 0 .. k_eff - 1, exactly k_eff centers and n_clusters = k_eff.
C16_EffectiveClusterCount ==
    (Done("cluster_embeddings") /\ WellFormed(op.embeddings) /\ op.n_clusters >= 1) =>
        LET k_eff == Min(op.n_clusters, Len(op.embeddings))
        IN /\ Len(op.result.cluster_labels) = Len(op.embeddings)
           /\ \A i \in 1 .. Len(op.embeddings) :
                 op.result.cluster_labels[i] \in 0 .. k_eff - 1
           /\ Len(op.result.cluster_centers) = k_eff
           /\ op.result.n_clusters = k_eff

\* A call that asked for more clusters than there are vectors.
C16_Witness ==
    /\ Done("cluster_embeddings")
    /\ WellFormed(op.embeddings)
    /\ op.n_clusters > Len(op.embeddings)
    /\ op.result.n_clusters = Len(op.embeddings)
    /\ Len(op.result.cluster_centers) = Len(op.embeddings)

\* C17 (as claimed): a call on an empty vector list reports an error and does
\* not return a clustering result.
C17_EmptyInputIsError ==
    (Done("cluster_embeddings") /\ op.embeddings = <<>>) =>
        "cluster_labels" \notin DOMAIN op.result

\* C18: when the clustering computation fails, cluster_embeddings returns a
\* single cluster holding every input position: all labels 0, clusters =
\* {0: all positions}, n_clusters = 1 and inertia 0, whatever was requested.
C18_FailureGivesSingleCluster ==
    (Done("cluster_embeddings") /\ op.failed) =>
        /\ op.result.cluster_labels = [i \in 1 .. Len(op.embeddings) |-> 0]
        /\ DOMAIN op.result.clusters = {0}
        /\ op.result.clusters[0] = [i \in 1 .. Len(op.embeddings) |-> i]
        /\ op.result.n_clusters = 1
        /\ op.result.inertia = 0

\* A failed call on several vectors that asked for more than one cluster.
C18_Witness ==
    /\ Done("cluster_embeddings")
    /\ op.failed
    /\ Len(op.embeddings) >= 2
    /\ op.n_clusters >= 2
    /\ op.result.n_clusters = 1

\* C19 (as claimed): for a non-empty list of vectors of one dimension and
\* k >= 1 at least the number of distinct vectors, there are as many clusters
\* as vectors, and the inertia is 0.
C19_OneClusterPerVector ==
    (Done("cluster_embeddings") /\ WellFormed(op.embeddings) /\ op.n_clusters >= 1
        /\ op.n_clusters >= Cardinality(DistinctVectors(op.embeddings))) =>
        /\ Cardinality(DOMAIN op.result.clusters) = Len(op.embeddings)
        /\ op.result.inertia = 0

\* C19 (amended): for a non-empty list of vectors of one dimension and k >= 1
\* at least the number of distinct vectors, two vectors share a cluster exactly
\* when they are equal (one cluster per distinct vector), and the inertia is 0.
C19_OneClusterPerDistinctVector ==
    (Done("cluster_embeddings") /\ WellFormed(op.embeddings) /\ op.n_clusters >= 1
        /\ op.n_clusters >= Cardinality(DistinctVectors(op.embeddings))) =>
        /\ \A i, j \in 1 .. Len(op.embeddings) :
              (op.result.cluster_labels[i] = op.result.cluster_labels[j])
                  <=> (op.embeddings[i] = op.embeddings[j])
        /\ op.result.inertia = 0

\* A call on three vectors, two of them equal, with k = 2: two clusters.
C19_Witness ==
    /\ Done("cluster_embeddings")
    /\ WellFormed(op.embeddings)
    /\ Len(op.embeddings) = 3
    /\ Cardinality(DistinctVectors(op.embeddings)) = 2
    /\ op.n_clusters = 2
    /\ Cardinality(DOMAIN op.result.clusters) = 2
    /\ op.result.inertia = 0

\* C20 (as claimed): reduce_dimensionality returns one point per input vector,
\* in input order, each with exactly n_components coordinates, whether PCA
\* succeeded or the fallback was taken.
C20_OnePointPerVectorOfTargetDims ==
    Done("reduce_dimensionality") =>
        /\ Len(op.result) = Len(op.embeddings)
        /\ \A i \in 1 .. Len(op.result) : Len(op.result[i]) = op.n_components
        /\ ~op.failed =>
              \A i \in 1 .. Len(op.result) : \A c \in 1 .. op.n_components :
                  op.result[i][c] = Projection(op.embeddings[i], c)

\* What a caller can see of a list of points: floats all look alike, so the
\* number of points and the number of coordinates of each.
Shape(points) == [i \in 1 .. Len(points) |-> Len(points[i])]

\* The shapes of the results PCA itself returns for n_components.
GenuineReduceShapes(n_components) ==
    {Shape(FitTransform(e, n_components)) :
        e \in {l \in PointLists(MaxVecs) : ~PCARaises(l, n_components)}}

\* C21 (as claimed): a fallback result of reduce_dimensionality or
\* cluster_embeddings can be told from a genuine result: no genuine result of
\* reduce_dimensionality for the same n_components has the shape of the
\* fallback, and a clustering result has no centers exactly when it is the
\* fallback.
C21_FallbackIsDistinguishable ==
    /\ (Done("reduce_dimensionality") /\ op.failed) =>
          Shape(op.result) \notin GenuineReduceShapes(op.n_components)
    /\ Done("cluster_embeddings") =>
          (op.failed <=> op.result.cluster_centers = <<>>)

StatsFields ==
    {"count", "dimension", "mean_norm", "std_norm", "mean_similarity",
     "std_similarity", "min_similarity", "max_similarity"}

\* C22 (as claimed): for every non-empty list of vectors of one dimension, a
\* single vector included, get_embedding_stats returns a record with the
\* eight fields, count the number of vectors, and the similarity fields
\* computed over the off-diagonal pairs.
C22_StatsRecordForNonEmpty ==
    (Done("get_embedding_stats") /\ WellFormed(op.embeddings)) =>
        /\ StatsFields \subseteq DOMAIN op.result
        /\ op.result.count = Len(op.embeddings)
        /\ op.result.dimension = Len(op.embeddings[1])
        /\ op.result.mean_similarity = Mean(OffDiagonal(op.embeddings))
        /\ op.result.std_similarity = Std(OffDiagonal(op.embeddings))
        /\ \A x \in Range(OffDiagonal(op.embeddings)) :
              op.result.min_similarity <= x /\ x <= op.result.max_similarity

\* C23: get_embedding_stats on an empty list returns an empty result, and no
\* call of get_embedding_stats raises to its caller.
C23_StatsNeverRaise ==
    Done("get_embedding_stats") =>
        /\ ~op.raised
        /\ op.embeddings = <<>> => DOMAIN op.result = {}

\* A finished call on the empty list.
C23_Witness ==
    /\ Done("get_embedding_stats")
    /\ op.embeddings = <<>>
    /\ DOMAIN op.result = {}
    /\ ~op.raised

PureOps ==
    {"calculate_similarity", "find_similar_embeddings", "cluster_embeddings",
     "reduce_dimensionality", "get_embedding_stats"}

\* C24: a call of calculate_similarity, find_similar_embeddings,
\* cluster_embeddings, reduce_dimensionality or get_embedding_stats leaves the
\* cache store and the model calls of every embedding call unchanged, on the
\* normal path and on the fallback path.
C24_VectorOpsLeaveCacheAndModel ==
    [][(op.fn \in PureOps /\ op' # op) => (cache' = cache /\ call' = call)]_vars

\* A call that took its fallback path while the cache held an entry.
C24_Witness ==
    /\ op.fn \in PureOps
    /\ op.done
    /\ op.failed
    /\ cache # <<>>

\* The keys whose entry a step wrote (a write of an equal value with an equal
\* expiry over an entry leaves no trace and needs no check).
WrittenKeys == {k \in DOMAIN cache' : k \notin DOMAIN cache \/ cache'[k] # cache[k]}

\* C25 (as claimed): every cache write gives the entry a lifetime of 24 hours
\* from the time of the write, and a write over a live entry stores the value
\* the entry already held.
C25_WriteIsIdempotentWithFullTtl ==
    [][\A k \in WrittenKeys :
          /\ cache'[k].expiry = now + 24 * 60 * 60
          /\ (k \in DOMAIN cache /\ now < cache[k].expiry) =>
                cache'[k].val = cache[k].val]_vars

\* C26: a cache hit leaves the cache store unchanged.  No step of a call that
\* is still looking up the cache changes an entry or its expiry, and a call
\* that returns without having run the model has written nothing.
C26_HitLeavesCacheUnchanged ==
    [][\A c \in DOMAIN call :
          /\ (call[c].pc = "get" /\ call'[c] # call[c]) => cache' = cache
          /\ (call'[c].pc = "returned" /\ call'[c].modelCalls = <<>>) =>
                call'[c].wrote = {}]_vars

\* A batch of two texts served from the cache after time has passed since the
\* entries were written.
C26_Witness ==
    \E c \in DOMAIN call :
        /\ call[c].kind = "batch"
        /\ call[c].pc = "returned"
        /\ Len(call[c].texts) = 2
        /\ call[c].modelCalls = <<>>
        /\ now > 0
        /\ \A k \in 1 .. 2 : call[c].obs[k].st = "live"

\* C27: if the model raises during generate_embedding or
\* generate_embeddings_batch, the call has left the cache store as it was: no
\* step of a call changes the store before its inference has succeeded, the
\* step in which the model raises changes nothing, and the call has written
\* no entry.
C27_ModelErrorLeavesCacheUnchanged ==
    [][\A c \in DOMAIN call :
          /\ (call[c].pc \in {"get", "encode"} /\ call'[c] # call[c]) => cache' = cache
          /\ (call'[c].pc = "raised" /\ call'[c].modelErr) => call'[c].wrote = {}]_vars

\* A batch call whose inference raised after one of its texts was found in
\* the cache.
C27_Witness ==
    \E c \in DOMAIN call :
        /\ call[c].kind = "batch"
        /\ call[c].pc = "raised"
        /\ call[c].modelErr
        /\ \E k \in 1 .. Len(call[c].obs) : call[c].obs[k].st = "live"
        /\ cache # <<>>

\* What C28 asks of a finished semantic_search call o.
SearchResultOk(o) ==
    /\ \A n \in 1 .. Len(o.result) :
          \E i \in 1 .. Len(o.documents) :
              /\ HasEmbedding(o.documents[i])
              /\ o.result[n] = WithScore(o.documents[i], o.result[n].similarity_score)
              /\ o.result[n].similarity_score =
                    CosineSimilarity(Embed(o.query), o.documents[i].embedding)
    /\ Len(o.result) <= o.top_k
    /\ \A a, b \in 1 .. Len(o.result) :
          a < b => o.result[a].similarity_score >= o.result[b].similarity_score
    /\ o.failed => o.result = <<>>

\* C28 (as claimed): semantic_search returns only documents with a non-empty
\* embedding, at most top_k of them, in descending similarity order; each
\* similarity_score is the similarity of the query to that same document's
\* embedding; the input documents are not modified; a failure gives [].
C28_SearchRanksDocuments ==
    [][(op.fn = "semantic_search" /\ op' # op) =>
          (op'.documents = op.documents /\ SearchResultOk(op'))]_vars

====
